---- MODULE Spec2Model ----
(***************************************************************************)
(* Model of the HTTP/3 benchmark client (src/client/src/main.rs): the      *)
(* event loop of main(), its request pipeline (requests_sent,              *)
(* requests_done, inflight, results) and the calls it makes on the QUIC    *)
(* connection, the HTTP/3 session and the UDP socket.  The engine and the  *)
(* socket are external: every result they can return is a nondeterministic *)
(* choice.                                                                 *)
(***************************************************************************)
EXTENDS Integers, Sequences, FiniteSets, TLC

\* ---- bounds of the model ------------------------------------------------
MaxWarmup == 2
MaxRequests == 3
MaxTotal == 3
MaxDone == 3
MaxClock == 1
MaxBytes == 1

\* ---- program constants --------------------------------------------------
U16 == 65536

VARIABLES
    profile,         \* what the peer's responses differ in during this run
    warmup,          \* args.warmup
    requests,        \* args.requests
    pc,              \* position of main() in the loop
    exit,            \* how main() returned: "none" while running
    ready,           \* events of the last poll.poll(): non-empty or not
    established,     \* conn.is_established()
    closed,          \* conn.is_closed()
    local_error,     \* the connection's recorded close: <<>> or <<call>>
    h3_conn,         \* h3_conn.is_some()
    requests_sent,
    requests_done,
    results,
    inflight,        \* Option<InflightRequest>: <<>> or <<request>>
    clock,           \* the monotonic clock read by Instant::now()
    lastEvent,       \* history: the session event, packet or timeout handled by the last step
    lastClose,       \* history: the conn.close() call made by the last step
    lastResolved,    \* history: a Finished/Reset of the last issued stream was handled
    gotHeaders,      \* history: a Headers of the last issued stream was handled
    resetSlots,      \* history: the values requests_done - warmup at which a Reset was counted
    bodyRead,        \* history: the bytes recv_body returned for the in-flight request's stream
    statusParsed     \* history: the status the Headers of the in-flight request's stream carried

vars == <<profile, warmup, requests, pc, exit, ready, established, closed, local_error,
          h3_conn, requests_sent, requests_done, results, inflight, clock,
          lastEvent, lastClose, lastResolved, gotHeaders, resetSlots,
          bodyRead, statusParsed>>

pipeline == <<requests_sent, requests_done, results, inflight>>
args == <<profile, warmup, requests>>
history == <<lastResolved, gotHeaders, resetSlots, bodyRead, statusParsed>>

\* ---- values -------------------------------------------------------------
None == <<>>
Some(x) == <<x>>
IsNone(o) == o = <<>>
IsSome(o) == o # <<>>
Unwrap(o) == o[1]
UnwrapOr(o, d) == IF o = <<>> THEN d ELSE o[1]

Min(a, b) == IF a <= b THEN a ELSE b

NoEvent == [kind |-> "none", matched |-> FALSE]
NoClose == [app |-> FALSE, err |-> 0, reason |-> "none"]
DoneClose == [app |-> TRUE, err |-> 256, reason |-> "done"]
GoAwayCloseAsDone == [app |-> TRUE, err |-> 256, reason |-> "done"]
GoAwayClose == [app |-> TRUE, err |-> 256, reason |-> "goaway"]
FailClose == [app |-> FALSE, err |-> 1, reason |-> "fail"]

\* total_requests = args.warmup + args.requests (u32; the counts of the model
\* stay far below the width)
total_requests == warmup + requests

\* conn.close(): the first call is recorded, later calls are refused (the
\* refusal is discarded by .ok()).
ConnClose(call) == IF local_error = None THEN Some(call) ELSE local_error

\* Instant::duration_since: saturating difference of two instants.
DurationSince(later, earlier) == IF later >= earlier THEN later - earlier ELSE 0

\* The responses of one run differ in one respect: in the time they take, in
\* the size of their bodies, or in their status headers; or the peer answers
\* request k with status 200 and a body of 100 * (k + 1) bytes ("scenario").
Profiles == {"timing", "body", "status", "scenario"}

\* Instant::now(): the clock never goes back.
Now == IF profile = "timing" THEN clock .. Min(clock + 1, MaxClock) ELSE {clock}

\* the stream id send_request returns for the k-th request (k from 0): an
\* opaque handle, a new one for every request
StreamOf(k) == k

\* stream ids a session event can carry: the request streams opened so far
EventSids == { StreamOf(k) : k \in 0 .. (requests_sent - 1) }

\* ---- header parsing -----------------------------------------------------
\* A header value is a sequence of bytes: 0..9 stand for the digits, 10 for
\* any other byte.
RECURSIVE DigitsValue(_)
DigitsValue(s) ==
    IF s = <<>> THEN 0
    ELSE 10 * DigitsValue(SubSeq(s, 1, Len(s) - 1)) + s[Len(s)]

\* str::parse::<u16>().unwrap_or(0)
ParseStatus(v) ==
    IF v = <<>> \/ (\E i \in 1 .. Len(v) : v[i] > 9) THEN 0
    ELSE IF DigitsValue(v) >= U16 THEN 0
    ELSE DigitsValue(v)

\* for hdr in &list { if hdr.name() == b":status" { req.status = ... } }
RECURSIVE StatusOf(_, _)
StatusOf(list, st) ==
    IF list = <<>> THEN st
    ELSE StatusOf(Tail(list),
                  IF Head(list).name = ":status"
                  THEN ParseStatus(Head(list).value) ELSE st)

HeaderLists ==
    IF profile = "scenario"
    THEN { << [name |-> ":status", value |-> <<2, 0, 0>>] >> }
    ELSE { <<>>,
           << [name |-> ":status", value |-> <<10>>] >>,
           << [name |-> "server", value |-> <<10>>] >> }
         \cup (IF profile = "status"
               THEN { << [name |-> ":status", value |-> <<2, 0, 0>>] >>,
                      << [name |-> "server", value |-> <<10>>],
                         [name |-> ":status", value |-> <<2, 0, 0>>] >> }
               ELSE {})

\* ---- initial state: after the initial handshake packet was sent ---------
Init ==
    /\ profile \in Profiles
    /\ warmup \in 0 .. MaxWarmup
    /\ requests \in 0 .. MaxRequests
    /\ warmup + requests <= MaxTotal
    /\ profile = "scenario" => (warmup = 0 /\ requests = 3)
    /\ pc = "poll"
    /\ exit = "none"
    /\ ready = FALSE
    /\ established = FALSE
    /\ closed = FALSE
    /\ local_error = None
    /\ h3_conn = FALSE
    /\ requests_sent = 0
    /\ requests_done = 0
    /\ results = <<>>
    /\ inflight = None
    /\ clock = 0
    /\ lastEvent = NoEvent
    /\ lastClose = NoClose
    /\ lastResolved = FALSE
    /\ gotHeaders = FALSE
    /\ resetSlots = {}
    /\ bodyRead = 0
    /\ statusParsed = 0

\* what a step that handles no session event and closes nothing leaves
Quiet == lastEvent' = NoEvent /\ lastClose' = NoClose

\* ---- poll.poll(&mut events, conn.timeout())? ----------------------------
PollReady ==
    /\ pc = "poll"
    /\ ready' = TRUE
    /\ pc' = "read"
    /\ Quiet
    /\ UNCHANGED <<args, exit, established, closed, local_error, h3_conn,
                   pipeline, clock, history>>

PollTimeout ==
    /\ pc = "poll"
    /\ ready' = FALSE
    /\ pc' = "read"
    /\ Quiet
    /\ UNCHANGED <<args, exit, established, closed, local_error, h3_conn,
                   pipeline, clock, history>>

PollFail ==
    /\ pc = "poll"
    /\ pc' = "done"
    /\ exit' = "poll"
    /\ Quiet
    /\ UNCHANGED <<args, ready, established, closed, local_error, h3_conn,
                   pipeline, clock, history>>

\* ---- 'read loop ---------------------------------------------------------
\* events.is_empty(): conn.on_timeout(); break 'read.  The engine may decide
\* that the connection is closed (idle or draining timer expired).
OnTimeoutBody(c) ==
    /\ pc = "read"
    /\ ~ready
    /\ closed' = (closed \/ c)
    /\ pc' = "closed1"
    /\ lastEvent' = [kind |-> "Timeout", matched |-> FALSE]
    /\ lastClose' = NoClose
    /\ UNCHANGED <<args, exit, ready, established, local_error, h3_conn,
                   pipeline, clock, history>>

OnTimeoutClose == OnTimeoutBody(TRUE)

OnTimeout == \E c \in BOOLEAN : OnTimeoutBody(c)

\* socket.recv_from() returned a packet; conn.recv() ingests it.  An ingest
\* error is printed and the loop goes on.  Ingesting may complete the
\* handshake or close the connection (stateless reset).
\* if let Err(e) = conn.recv(...) { eprintln!(...) }: where main() stands
\* after a packet the engine refused
IngestFailFatal == [pc |-> "done", exit |-> "recv"]

IngestFail == [pc |-> "read", exit |-> exit]

RecvPacketBody(handshake) ==
    /\ pc = "read"
    /\ ready
    /\ \E ok \in BOOLEAN, est \in handshake, cl \in BOOLEAN :
          /\ established' = (established \/ (ok /\ est /\ ~closed))
          /\ closed' = (closed \/ cl)
          /\ pc' = IF ok THEN "read" ELSE IngestFail.pc
          /\ exit' = IF ok THEN exit ELSE IngestFail.exit
          /\ lastEvent' = [kind |-> IF ok THEN "Packet" ELSE "IngestError",
                           matched |-> FALSE]
    /\ lastClose' = NoClose
    /\ UNCHANGED <<args, ready, local_error, h3_conn, pipeline, clock,
                   history>>

RecvPacket == RecvPacketBody(BOOLEAN)

\* the same with an engine whose handshake never completes
RecvPacketStalled == RecvPacketBody({FALSE})

\* recv_from() would block: break 'read
RecvWouldBlock ==
    /\ pc = "read"
    /\ ready
    /\ pc' = "closed1"
    /\ Quiet
    /\ UNCHANGED <<args, exit, ready, established, closed, local_error,
                   h3_conn, pipeline, clock, history>>

RecvFail ==
    /\ pc = "read"
    /\ ready
    /\ pc' = "done"
    /\ exit' = "recv"
    /\ Quiet
    /\ UNCHANGED <<args, ready, established, closed, local_error, h3_conn,
                   pipeline, clock, history>>

\* ---- if conn.is_closed() { break; } (first check) -----------------------
\* When the loop goes on, the events of this poll are not read again before
\* the next poll overwrites them: ready is cleared.
ClosedCheck1Ignored ==
    /\ pc = "closed1"
    /\ pc' = "h3create" /\ exit' = exit /\ ready' = FALSE
    /\ Quiet
    /\ UNCHANGED <<args, established, closed, local_error, h3_conn,
                   pipeline, clock, history>>

ClosedCheck1 ==
    /\ pc = "closed1"
    /\ IF closed
       THEN pc' = "done" /\ exit' = "ok" /\ ready' = ready
       ELSE pc' = "h3create" /\ exit' = exit /\ ready' = FALSE
    /\ Quiet
    /\ UNCHANGED <<args, established, closed, local_error, h3_conn,
                   pipeline, clock, history>>

\* ---- create the HTTP/3 connection once the handshake completes ----------
CreateGuardNoHandshake == ~h3_conn

CreateGuardRepeats == established

CreateGuard == established /\ ~h3_conn

CreateSession ==
    /\ pc = "h3create"
    /\ IF CreateGuard
       THEN \E ok \in BOOLEAN :
               IF ok
               THEN h3_conn' = TRUE /\ pc' = "issue" /\ exit' = exit
               ELSE h3_conn' = h3_conn /\ pc' = "done" /\ exit' = "h3"
       ELSE h3_conn' = h3_conn /\ pc' = "issue" /\ exit' = exit
    /\ Quiet
    /\ UNCHANGED <<args, ready, established, closed, local_error, pipeline,
                   clock, history>>

\* ---- send the next request ----------------------------------------------
IssueGuardNoSlotCheck == requests_sent < total_requests

IssueGuard == IsNone(inflight) /\ requests_sent < total_requests

NewRequestKeepsBytes(t, sid) ==
    [start |-> t, first_byte |-> None, status |-> 0,
     bytes_received |-> IF results = <<>> THEN 0
                        ELSE results[Len(results)].bytes_received,
     stream_id |-> sid]

NewRequest(t, sid) ==
    [start |-> t, first_byte |-> None, status |-> 0, bytes_received |-> 0,
     stream_id |-> sid]

SendRequest ==
    /\ pc = "issue"
    /\ IF h3_conn /\ IssueGuard
       THEN \E ok \in BOOLEAN :
               IF ok
               THEN \E t \in Now :
                       /\ inflight' = Some(NewRequest(t, StreamOf(requests_sent)))
                       /\ requests_sent' = requests_sent + 1
                       /\ clock' = t
                       /\ lastResolved' = FALSE
                       /\ gotHeaders' = FALSE
                       /\ bodyRead' = 0
                       /\ statusParsed' = 0
                       /\ pc' = "events"
                       /\ exit' = exit
               ELSE /\ pc' = "done"
                    /\ exit' = "send_request"
                    /\ UNCHANGED <<inflight, requests_sent, clock,
                                   lastResolved, gotHeaders, bodyRead,
                                   statusParsed>>
       ELSE /\ pc' = IF h3_conn THEN "events" ELSE "flush"
            /\ UNCHANGED <<exit, inflight, requests_sent, clock,
                           lastResolved, gotHeaders, bodyRead, statusParsed>>
    /\ Quiet
    /\ UNCHANGED <<args, ready, established, closed, local_error, h3_conn,
                   requests_done, results, resetSlots>>

\* ---- process HTTP/3 events: one action per arm of match h3.poll() -------
\* does the event's stream match the in-flight request?
Matches(sid) == IsSome(inflight) /\ sid = Unwrap(inflight).stream_id

Event(k, sid) == [kind |-> k, matched |-> Matches(sid)]

\* the last stream opened by send_request
IsLastStream(sid) == requests_sent > 0 /\ sid = StreamOf(requests_sent - 1)

\* what the peer said in a header list: the value of its last :status header
\* as a number, or what it said before
LastStatus(list, before) ==
    LET at == { i \in 1 .. Len(list) : list[i].name = ":status" }
    IN  IF at = {} THEN before
        ELSE LET v == list[CHOOSE i \in at : \A j \in at : j <= i].value
             IN  IF v = <<2, 0, 0>> THEN 200 ELSE 0

\* Event::Headers arm, on the matching request
HeadersUpdate(req, t, list) ==
    [req EXCEPT !.first_byte = Some(t), !.status = StatusOf(list, req.status)]

EvHeaders ==
    /\ pc = "events"
    /\ \E sid \in EventSids, list \in HeaderLists :
          /\ IF Matches(sid)
             THEN \E t \in Now :
                     /\ inflight' = Some(HeadersUpdate(Unwrap(inflight), t, list))
                     /\ clock' = t
                     /\ statusParsed' = LastStatus(list, statusParsed)
             ELSE UNCHANGED <<inflight, clock, statusParsed>>
          /\ lastEvent' = Event("Headers", sid)
          /\ gotHeaders' = (gotHeaders \/ IsLastStream(sid))
    /\ lastClose' = NoClose
    /\ UNCHANGED <<args, pc, exit, ready, established, closed, local_error,
                   h3_conn, requests_sent, requests_done, results,
                   lastResolved, resetSlots, bodyRead>>

\* Event::Data arm: recv_body is called until it fails; n is the sum of the
\* chunks it returned.
DataUpdate(req, n) == [req EXCEPT !.bytes_received = req.bytes_received + n]

\* the body bytes counted in the rows
RECURSIVE RowBytes(_)
RowBytes(rs) ==
    IF rs = <<>> THEN 0 ELSE Head(rs).bytes_received + RowBytes(Tail(rs))

\* the body bytes the run can still receive: MaxBytes bounds the bytes counted
\* in the rows and in the in-flight request together
BytesLeft(req) ==
    IF profile = "body"
    THEN MaxBytes - RowBytes(results) - req.bytes_received
    ELSE 0

\* the body of the scenario's answer to the request on stream sid
ScenarioBody(sid) == 100 * (sid + 1)

\* what one Data event can read: any part of the bytes left; in the scenario
\* the body follows the headers and arrives in pieces of 100 bytes
BodyReads(req) ==
    IF profile = "scenario"
    THEN IF req.status = 200
         THEN { n \in 0 .. (ScenarioBody(req.stream_id) - req.bytes_received) :
                   n % 100 = 0 }
         ELSE {0}
    ELSE 0 .. BytesLeft(req)

EvData ==
    /\ pc = "events"
    /\ \E sid \in EventSids :
          /\ IF Matches(sid)
             THEN \E n \in BodyReads(Unwrap(inflight)) :
                     /\ inflight' = Some(DataUpdate(Unwrap(inflight), n))
                     /\ bodyRead' = bodyRead + n
             ELSE UNCHANGED <<inflight, bodyRead>>
          /\ lastEvent' = Event("Data", sid)
    /\ lastClose' = NoClose
    /\ UNCHANGED <<args, pc, exit, ready, established, closed, local_error,
                   h3_conn, requests_sent, requests_done, results, clock,
                   lastResolved, gotHeaders, resetSlots, statusParsed>>

\* "Only record results after warmup."
RecordGuard == requests_done >= warmup

\* the RequestResult built from the finished request
ResultOfRowIndex(req, now) ==
    [index |-> Len(results),
     status |-> req.status,
     ttfb |-> DurationSince(UnwrapOr(req.first_byte, now), req.start),
     total_time |-> DurationSince(now, req.start),
     bytes_received |-> req.bytes_received]

ResultOfFirstByteOrStart(req, now) ==
    [index |-> requests_done - warmup,
     status |-> req.status,
     ttfb |-> DurationSince(UnwrapOr(req.first_byte, req.start), req.start),
     total_time |-> DurationSince(now, req.start),
     bytes_received |-> req.bytes_received]

ResultOf(req, now) ==
    [index |-> requests_done - warmup,
     status |-> req.status,
     ttfb |-> DurationSince(UnwrapOr(req.first_byte, now), req.start),
     total_time |-> DurationSince(now, req.start),
     bytes_received |-> req.bytes_received]

\* "All requests done - close connection."
CloseGuardStrict(done) == done > total_requests

CloseGuard(done) == done >= total_requests

\* the conn.close(true, 0x100, b"done") at the end of the Finished and Reset arms
CloseIfDone(done) ==
    IF CloseGuard(done)
    THEN local_error' = ConnClose(DoneClose) /\ lastClose' = DoneClose
    ELSE local_error' = local_error /\ lastClose' = NoClose

\* Event::Finished arm: inflight.take(), then the stream check.
EvFinished ==
    /\ pc = "events"
    /\ \E sid \in EventSids :
          /\ inflight' = None
          /\ IF Matches(sid)
             THEN \E now \in Now :
                     /\ clock' = now
                     /\ results' = IF RecordGuard
                                   THEN Append(results, ResultOf(Unwrap(inflight), now))
                                   ELSE results
                     /\ requests_done' = requests_done + 1
                     /\ CloseIfDone(requests_done + 1)
             ELSE /\ UNCHANGED <<clock, results, requests_done>>
                  /\ CloseIfDone(requests_done)
          /\ lastEvent' = Event("Finished", sid)
          /\ lastResolved' = (lastResolved \/ IsLastStream(sid))
    /\ bodyRead' = 0
    /\ statusParsed' = 0
    /\ UNCHANGED <<args, pc, exit, ready, established, closed, h3_conn,
                   requests_sent, gotHeaders, resetSlots>>

\* requests_done += 1 of the Reset arm
ResetDoneNotCounted(done) == done

ResetDone(done) == done + 1

\* Event::Reset arm: the stream id is not looked at.
EvReset ==
    /\ pc = "events"
    /\ requests_done < MaxDone
    /\ \E sid \in EventSids :
          /\ inflight' = None
          /\ requests_done' = ResetDone(requests_done)
          /\ CloseIfDone(ResetDone(requests_done))
          /\ resetSlots' = IF requests_done >= warmup
                           THEN resetSlots \cup {requests_done - warmup}
                           ELSE resetSlots
          /\ lastEvent' = Event("Reset", sid)
          /\ lastResolved' = (lastResolved \/ IsLastStream(sid))
    /\ bodyRead' = 0
    /\ statusParsed' = 0
    /\ UNCHANGED <<args, pc, exit, ready, established, closed, h3_conn,
                   requests_sent, results, clock, gotHeaders>>

\* Event::GoAway arm
EvGoAway ==
    /\ pc = "events"
    /\ local_error' = ConnClose(GoAwayClose)
    /\ lastClose' = GoAwayClose
    /\ lastEvent' = [kind |-> "GoAway", matched |-> FALSE]
    /\ UNCHANGED <<args, pc, exit, ready, established, closed, h3_conn,
                   pipeline, clock, history>>

\* Event::PriorityUpdate arm
EvPriorityUpdate ==
    /\ pc = "events"
    /\ lastEvent' = [kind |-> "PriorityUpdate", matched |-> FALSE]
    /\ lastClose' = NoClose
    /\ UNCHANGED <<args, pc, exit, ready, established, closed, local_error,
                   h3_conn, pipeline, clock, history>>

\* Err(quiche::h3::Error::Done) => break
EvDone ==
    /\ pc = "events"
    /\ pc' = "flush"
    /\ Quiet
    /\ UNCHANGED <<args, exit, ready, established, closed, local_error,
                   h3_conn, pipeline, clock, history>>

\* Err(e) => { eprintln!(...); break; }
EvError ==
    /\ pc = "events"
    /\ pc' = "flush"
    /\ lastEvent' = [kind |-> "Error", matched |-> FALSE]
    /\ lastClose' = NoClose
    /\ UNCHANGED <<args, exit, ready, established, closed, local_error,
                   h3_conn, pipeline, clock, history>>

\* ---- send outgoing QUIC packets -----------------------------------------
\* The flush loop ran to Err(quiche::Error::Done): every packet conn.send()
\* produced was handed to send_to(), which spins on WouldBlock until the
\* socket takes the datagram.  Once a close was requested the engine may
\* report the connection closed after sending.
FlushDone ==
    /\ pc = "flush"
    /\ \E c \in BOOLEAN : closed' = (closed \/ (c /\ IsSome(local_error)))
    /\ pc' = "closed2"
    /\ Quiet
    /\ UNCHANGED <<args, exit, ready, established, local_error, h3_conn,
                   pipeline, clock, history>>

\* conn.send() failed: conn.close(false, 0x1, b"fail").ok(); bail!
FlushEngineFail ==
    /\ pc = "flush"
    /\ local_error' = ConnClose(FailClose)
    /\ lastClose' = FailClose
    /\ lastEvent' = NoEvent
    /\ pc' = "done"
    /\ exit' = "send"
    /\ UNCHANGED <<args, ready, established, closed, h3_conn, pipeline,
                   clock, history>>

\* send_to(...)? failed with a real error: the error is returned as it is
FlushSendToFail ==
    /\ pc = "flush"
    /\ pc' = "done"
    /\ exit' = "send_to"
    /\ Quiet
    /\ UNCHANGED <<args, ready, established, closed, local_error, h3_conn,
                   pipeline, clock, history>>

\* ---- if conn.is_closed() { break; } (end of the iteration) --------------
ClosedCheck2 ==
    /\ pc = "closed2"
    /\ IF closed
       THEN pc' = "done" /\ exit' = "ok"
       ELSE pc' = "poll" /\ exit' = exit
    /\ Quiet
    /\ UNCHANGED <<args, ready, established, closed, local_error, h3_conn,
                   pipeline, clock, history>>

Next ==
    \/ PollReady
    \/ PollTimeout
    \/ PollFail
    \/ OnTimeout
    \/ RecvPacket
    \/ RecvWouldBlock
    \/ RecvFail
    \/ ClosedCheck1
    \/ CreateSession
    \/ SendRequest
    \/ EvHeaders
    \/ EvData
    \/ EvFinished
    \/ EvReset
    \/ EvGoAway
    \/ EvPriorityUpdate
    \/ EvDone
    \/ EvError
    \/ FlushDone
    \/ FlushEngineFail
    \/ FlushSendToFail
    \/ ClosedCheck2

Spec == Init /\ [][Next]_vars

TypeOK ==
    /\ pc \in {"poll", "read", "closed1", "h3create", "issue", "events",
               "flush", "closed2", "done"}
    /\ requests_sent \in 0 .. MaxTotal
    /\ requests_done \in 0 .. (MaxDone + MaxTotal)
    /\ Len(results) <= MaxTotal + 1

\* ---- helpers of the properties ------------------------------------------
StreamEvents == {"Headers", "Data", "Finished", "Reset"}

RowIndices == { results[i].index : i \in 1 .. Len(results) }

LastRow(rs) == rs[Len(rs)]

\* the number of completions counted since the warmup was exhausted
MeasuredDone == IF requests_done >= warmup THEN requests_done - warmup ELSE 0

\* C1: a request is issued (requests_sent incremented) only in a step that
\* starts with the InflightRequest slot empty and fills it; no step issues a
\* request while an InflightRequest exists.
C1_SingleInFlight ==
    [][requests_sent' # requests_sent =>
          /\ IsNone(inflight)
          /\ IsSome(inflight')
          /\ requests_sent' = requests_sent + 1]_vars

\* a second request is in flight after the first one was resolved
C1_Witness == requests_sent = 2 /\ IsSome(inflight) /\ requests_done = 1

\* C2: request k+1 is never issued before a Finished or Reset event of
\* request k's own stream has been handled.
C2_StrictSequencing ==
    [][(requests_sent' > requests_sent /\ requests_sent > 0) => lastResolved]_vars

\* C3 (as stated): at the end of a run the reported indices are exactly
\* 0, 1, ..., rows-1 in append order.
C3_IndicesGapFree ==
    pc = "done" => \A i \in 1 .. Len(results) : results[i].index = i - 1

\* C3 (amended): the indices are strictly increasing in append order, and
\* together with the positions at which a Reset was counted after the warmup
\* they are exactly 0 .. (completed - warmup - 1): a gap in the indices is a
\* counted Reset, and there is no gap when no Reset was counted.
C3_IndicesSkipResets ==
    /\ \A i \in 1 .. Len(results) : \A j \in 1 .. Len(results) :
          i < j => results[i].index < results[j].index
    /\ RowIndices \cap resetSlots = {}
    /\ RowIndices \cup resetSlots = 0 .. (MeasuredDone - 1)
    /\ (resetSlots = {} =>
          \A i \in 1 .. Len(results) : results[i].index = i - 1)

\* warmup 0, 3 requests, the 2nd is reset: the rows carry indices 0 and 2
C3_Witness ==
    /\ pc = "done"
    /\ exit = "ok"
    /\ warmup = 0
    /\ requests = 3
    /\ requests_sent = 3
    /\ requests_done = 3
    /\ resetSlots = {1}
    /\ Len(results) = 2
    /\ results[1].index = 0
    /\ results[2].index = 2

\* C4: a row is appended only by the Finished event of the in-flight request
\* while completed-count >= warmup, and never by one of the first `warmup`
\* requests issued; with warmup 2 and 1 request, once the third request has
\* finished the output is exactly one row with index 0.
C4_WarmupProducesNoRow ==
    /\ [][Len(results') # Len(results) =>
             /\ lastEvent'.kind = "Finished"
             /\ lastEvent'.matched
             /\ requests_done >= warmup
             /\ Unwrap(inflight).stream_id >= StreamOf(warmup)]_vars
    /\ []((/\ warmup = 2
           /\ requests = 1
           /\ requests_sent = 3
           /\ lastEvent.kind = "Finished"
           /\ lastEvent.matched)
          => (Len(results) = 1 /\ results[1].index = 0))

\* C5: handling a Reset of the in-flight stream clears the slot, appends no
\* row, adds exactly one to completed-count, issues nothing in that step and
\* requests the close exactly when completed-count has reached the total;
\* and the issue step of a later pass issues whenever the slot is empty and
\* requests remain (or fails fatally).
C5_ResetCounts ==
    /\ [][(lastEvent'.kind = "Reset" /\ lastEvent'.matched) =>
             /\ IsSome(inflight)
             /\ IsNone(inflight')
             /\ results' = results
             /\ requests_done' = requests_done + 1
             /\ requests_sent' = requests_sent
             /\ IF requests_done' >= total_requests
                THEN lastClose' = DoneClose /\ IsSome(local_error')
                ELSE lastClose' = NoClose /\ local_error' = local_error]_vars
    /\ [][(/\ pc = "issue"
           /\ h3_conn
           /\ IsNone(inflight)
           /\ requests_sent < total_requests) =>
             \/ (requests_sent' = requests_sent + 1 /\ IsSome(inflight'))
             \/ exit' = "send_request"]_vars

\* the first request was reset, and the second was issued on a later pass
C5_Witness ==
    /\ warmup = 0
    /\ resetSlots = {0}
    /\ results = <<>>
    /\ requests_done = 1
    /\ requests_sent = 2
    /\ IsSome(inflight)

\* C6: a Headers, Data, Finished or Reset event that does not match the
\* InflightRequest (other stream, or no request in flight) changes neither
\* the slot, nor the issued counter, nor the completed counter, nor the
\* results.
C6_StrayEventIgnored ==
    [][(lastEvent'.kind \in StreamEvents /\ ~lastEvent'.matched) =>
          UNCHANGED <<inflight, requests_sent, requests_done, results>>]_vars

\* C7: the step of a Finished or Reset event that brings completed-count to
\* the total requests the "done" close in that step, and the "done" close is
\* never requested (nor recorded by the connection) below the total.
C7_TerminationDecision ==
    /\ [][(/\ lastEvent'.kind \in {"Finished", "Reset"}
           /\ requests_done < total_requests
           /\ requests_done' >= total_requests) =>
             (lastClose' = DoneClose /\ IsSome(local_error'))]_vars
    /\ [](lastClose = DoneClose => requests_done >= total_requests)
    /\ [](local_error = Some(DoneClose) => requests_done >= total_requests)

\* the last of three requests has finished and the close was requested
C7_Witness ==
    /\ total_requests = 3
    /\ requests_done = 3
    /\ lastEvent = [kind |-> "Finished", matched |-> TRUE]
    /\ lastClose = DoneClose
    /\ local_error = Some(DoneClose)

\* C8: every row has ttfb <= total_time, and a row appended for a request
\* of which no Headers event was handled has ttfb = total_time.
C8_TtfbWithinTotal ==
    /\ [](\A i \in 1 .. Len(results) : results[i].ttfb <= results[i].total_time)
    /\ [][(Len(results') > Len(results) /\ ~gotHeaders) =>
             LastRow(results').ttfb = LastRow(results').total_time]_vars

\* a request finished without Headers after the clock had advanced
C8_Witness ==
    /\ lastEvent = [kind |-> "Finished", matched |-> TRUE]
    /\ ~gotHeaders
    /\ Len(results) > 0
    /\ LastRow(results).total_time > 0
    /\ LastRow(results).ttfb = LastRow(results).total_time

\* ---- the run under the scheduling the loop relies on --------------------
\* The loop keeps stepping; the socket runs dry (recv_from would block); the
\* bounded wait of poll returns with no readiness again and again; and the
\* engine, ticked again and again, lets the idle timeout close the connection.
LiveSpec ==
    /\ Spec
    /\ WF_vars(Next)
    /\ WF_vars(RecvWouldBlock)
    /\ SF_vars(PollTimeout)
    /\ SF_vars(OnTimeoutClose)

\* the run against an engine that never reports Established
StallNext ==
    \/ PollReady
    \/ PollTimeout
    \/ PollFail
    \/ OnTimeout
    \/ RecvPacketStalled
    \/ RecvWouldBlock
    \/ RecvFail
    \/ ClosedCheck1
    \/ CreateSession
    \/ SendRequest
    \/ FlushDone
    \/ FlushEngineFail
    \/ FlushSendToFail
    \/ ClosedCheck2

StallSpec ==
    /\ Init
    /\ [][StallNext]_vars
    /\ WF_vars(StallNext)
    /\ WF_vars(RecvWouldBlock)
    /\ SF_vars(PollTimeout)
    /\ SF_vars(OnTimeoutClose)

IoFailures == {"poll", "recv", "send", "send_to"}

\* C9: while the engine has not reported Established there is no Session, no
\* request has been issued and there is no row; a run in which Established
\* is never reported ends, and unless the socket or the engine fails on the
\* way it ends normally (closed connection, no error) with zero rows.
C9_NeverEstablished ==
    /\ [](~established =>
             /\ ~h3_conn
             /\ requests_sent = 0
             /\ IsNone(inflight)
             /\ results = <<>>
             /\ exit \in {"none", "ok"} \cup IoFailures
             /\ (exit = "ok" => closed))
    /\ ([]~established =>
          <>(/\ pc = "done"
             /\ \/ exit \in IoFailures
                \/ (exit = "ok" /\ closed /\ ~h3_conn /\ requests_sent = 0
                    /\ results = <<>>)))

\* the run ended normally on the timeout-tick path, Established never reported
C9_Witness ==
    /\ pc = "done"
    /\ exit = "ok"
    /\ ~established
    /\ ~ready
    /\ closed
    /\ results = <<>>
    /\ requests > 0

\* C10: when the run is aborted by a send-path failure of the flush step,
\* the immediate close conn.close(false, 0x1, "fail") was attempted first.
C10_SendFailureCloses ==
    (pc = "done" /\ exit \in {"send", "send_to"}) => lastClose = FailClose

\* how main() can return with an error once the loop runs
FatalExits == {"poll", "recv", "h3", "send_request", "send", "send_to"}

\* what the recovered errors leave alone: a refused packet keeps the drain
\* loop running, an error of the event source ends the draining of this pass,
\* a Reset is counted and its request is not issued again
RecoveredErrorsGoOn ==
    /\ [][lastEvent'.kind = "IngestError" =>
             /\ pc' = "read"
             /\ ready'
             /\ exit' = "none"
             /\ UNCHANGED pipeline]_vars
    /\ [][lastEvent'.kind = "Error" =>
             /\ pc' = "flush"
             /\ exit' = "none"
             /\ UNCHANGED pipeline]_vars
    /\ [][lastEvent'.kind = "Reset" =>
             /\ pc' = "events"
             /\ exit' = "none"
             /\ requests_done' = requests_done + 1
             /\ requests_sent' = requests_sent
             /\ IsNone(inflight')]_vars
    /\ [][requests_sent' >= requests_sent]_vars

\* C11 (as stated): recovered errors never terminate the run, and the only
\* outcomes that abort the run with an error are session-construction and
\* send-path failures (the handshake is started before the loop).
C11_OnlyListedAborts ==
    /\ RecoveredErrorsGoOn
    /\ [](exit \in {"none", "ok", "h3", "send_request", "send", "send_to"})

\* C11 (amended): recovered errors never terminate the run; the run is
\* aborted with an error only by a failure of the readiness wait, a receive
\* failure other than would-block, a session-construction failure, a failure
\* to send a request, or a send-path failure of the flush, each in its own
\* step of the loop.
C11_RecoveredErrorsContinue ==
    /\ RecoveredErrorsGoOn
    /\ [](exit \in {"none", "ok"} \cup FatalExits)
    /\ [][exit' # exit =>
             /\ exit = "none"
             /\ pc' = "done"
             /\ \/ exit' = "ok" /\ pc \in {"closed1", "closed2"} /\ closed
                \/ exit' = "poll" /\ pc = "poll"
                \/ exit' = "recv" /\ pc = "read" /\ ready /\ lastEvent' = NoEvent
                \/ exit' = "h3" /\ pc = "h3create"
                \/ exit' = "send_request" /\ pc = "issue"
                \/ exit' \in {"send", "send_to"} /\ pc = "flush"]_vars

\* a packet was refused while the second request was in flight, and the
\* drain loop goes on
C11_Witness ==
    /\ lastEvent.kind = "IngestError"
    /\ pc = "read"
    /\ exit = "none"
    /\ IsSome(inflight)
    /\ requests_sent = 2
    /\ requests_done = 1

\* the row the scenario's answer to request k gives when nothing went wrong
ScenarioRow(k) ==
    [index |-> k, status |-> 200, ttfb |-> 0, total_time |-> 0,
     bytes_received |-> 100 * (k + 1)]

\* C12: a new request starts with 0 bytes and status 0; the row appended for
\* a request carries the sum of the body chunks read for its own stream since
\* it was issued and the status parsed from that stream's headers; there are
\* never more rows than requests issued; and with warmup 0 and 3 requests
\* answered with status 200 and bodies of 100, 200 and 300 bytes, each request
\* finished after its headers and whole body gives the row (k, 200,
\* 100 * (k + 1)) when every earlier request gave a row and no Reset was counted.
C12_RowBytesAndStatus ==
    /\ [][requests_sent' > requests_sent =>
             /\ Unwrap(inflight').bytes_received = 0
             /\ Unwrap(inflight').status = 0
             /\ Unwrap(inflight').stream_id \notin EventSids]_vars
    /\ [][Len(results') # Len(results) =>
             /\ results' = Append(results, LastRow(results'))
             /\ lastEvent' = [kind |-> "Finished", matched |-> TRUE]
             /\ LastRow(results').bytes_received = bodyRead
             /\ LastRow(results').status = statusParsed]_vars
    /\ [](Len(results) <= requests_sent)
    /\ [][(/\ profile = "scenario"
           /\ Len(results') # Len(results)
           /\ resetSlots = {}
           /\ Len(results) = Unwrap(inflight).stream_id
           /\ statusParsed = 200
           /\ bodyRead = ScenarioBody(Unwrap(inflight).stream_id)) =>
             LastRow(results') = ScenarioRow(Len(results))]_vars

\* the scenario ran to its end: 3 rows, indices 0,1,2, status 200, bytes
\* 100, 200, 300
C12_Witness ==
    /\ pc = "done"
    /\ exit = "ok"
    /\ warmup = 0
    /\ requests = 3
    /\ results = << ScenarioRow(0), ScenarioRow(1), ScenarioRow(2) >>

\* C13: the first Headers event of the in-flight request's stream sets the
\* first-byte timestamp, and a later Headers event of the same stream leaves
\* it as it is; no other step touches the timestamp of a request in flight.
C13_FirstByteSetOnce ==
    [][(IsSome(inflight) /\ IsSome(inflight')
        /\ Unwrap(inflight').stream_id = Unwrap(inflight).stream_id) =>
          IF IsSome(Unwrap(inflight).first_byte)
          THEN Unwrap(inflight').first_byte = Unwrap(inflight).first_byte
          ELSE \/ (/\ lastEvent' = [kind |-> "Headers", matched |-> TRUE]
                   /\ Unwrap(inflight').first_byte = Some(clock'))
               \/ (/\ lastEvent' # [kind |-> "Headers", matched |-> TRUE]
                   /\ IsNone(Unwrap(inflight').first_byte))]_vars

\* C14: completed-count grows by one exactly in the steps that consume the
\* InflightRequest (a Finished or Reset event), so in every state
\* completed-count <= issued-count <= total.
C14_DoneOncePerRequest ==
    /\ [][requests_done' # requests_done =>
             /\ requests_done' = requests_done + 1
             /\ lastEvent'.kind \in {"Finished", "Reset"}
             /\ IsSome(inflight)
             /\ IsNone(inflight')]_vars
    /\ [][(IsSome(inflight) /\ IsNone(inflight')) =>
             requests_done' = requests_done + 1]_vars
    /\ [](requests_done <= requests_sent /\ requests_sent <= total_requests)

SessionEvents ==
    {"Headers", "Data", "Finished", "Reset", "GoAway", "PriorityUpdate", "Error"}

\* C15: the Session comes into being in one step only, the creation step of
\* an iteration in which the connection is Established, not closed and has
\* no Session, and it stays; once it exists the creation step constructs
\* nothing; without a Session no request is issued and no session event is
\* handled; and a construction that fails aborts the run.
C15_SessionOnce ==
    /\ [][h3_conn' # h3_conn =>
             /\ pc = "h3create"
             /\ ~h3_conn
             /\ h3_conn'
             /\ established
             /\ ~closed
             /\ pc' = "issue"]_vars
    /\ [][(pc = "h3create" /\ h3_conn) =>
             (pc' = "issue" /\ exit' = "none")]_vars
    /\ [][(pc = "h3create" /\ established /\ ~h3_conn /\ ~h3_conn') =>
             (pc' = "done" /\ exit' = "h3")]_vars
    /\ [](exit = "h3" => (pc = "done" /\ ~h3_conn))
    /\ [](~h3_conn =>
             /\ requests_sent = 0
             /\ IsNone(inflight)
             /\ pc # "events")
    /\ [][(requests_sent' # requests_sent \/ lastEvent'.kind \in SessionEvents)
             => (h3_conn /\ h3_conn')]_vars

\* a later iteration passes the creation step with the Session in place
C15_Witness ==
    /\ pc = "h3create"
    /\ h3_conn
    /\ established
    /\ requests_sent = 2
    /\ requests_done = 1

\* the order of the steps of one iteration, and the ways out of the loop
StepOrder ==
    { <<"poll", "read">>, <<"poll", "done">>,
      <<"read", "closed1">>, <<"read", "done">>,
      <<"closed1", "h3create">>, <<"closed1", "done">>,
      <<"h3create", "issue">>, <<"h3create", "done">>,
      <<"issue", "events">>, <<"issue", "flush">>, <<"issue", "done">>,
      <<"events", "flush">>,
      <<"flush", "closed2">>, <<"flush", "done">>,
      <<"closed2", "poll">>, <<"closed2", "done">> }

\* C16: after a wait that returned with no readiness the engine is ticked
\* once and no packet is received or ingested in that iteration; after a
\* wait that returned readiness packets are ingested until the socket would
\* block (or fails) and the engine is not ticked; the closed check, the
\* session creation, the request pipeline and the flush follow in that
\* order; and when the connection is closed at the first check the loop
\* exits, issuing nothing.
C16_IterationShape ==
    /\ [][pc = "read" => ready' = ready]_vars
    /\ [][(pc = "read" /\ ~ready) =>
             (pc' = "closed1" /\ lastEvent'.kind = "Timeout")]_vars
    /\ [][(pc = "read" /\ ready) =>
             \/ (pc' = "read" /\ lastEvent'.kind \in {"Packet", "IngestError"})
             \/ (pc' = "closed1" /\ lastEvent' = NoEvent
                 /\ UNCHANGED <<closed, established>>)
             \/ (pc' = "done" /\ exit' = "recv" /\ lastEvent' = NoEvent)]_vars
    /\ [][lastEvent'.kind \in {"Timeout", "Packet", "IngestError"} =>
             pc = "read"]_vars
    /\ [][pc' # pc => <<pc, pc'>> \in StepOrder]_vars
    /\ [][pc = "closed1" =>
             IF closed
             THEN pc' = "done" /\ exit' = "ok" /\ UNCHANGED pipeline
             ELSE pc' = "h3create"]_vars
    /\ [][(pc = "issue" /\ pc' = "flush") => ~h3_conn]_vars
    /\ [][pc # "done"]_vars

\* the engine closed the connection on a timeout-tick while requests
\* remained: the loop ended at the first check without issuing the next one
C16_Witness ==
    /\ pc = "done"
    /\ exit = "ok"
    /\ lastEvent = NoEvent
    /\ ~ready
    /\ h3_conn
    /\ IsNone(inflight)
    /\ requests_sent = 1
    /\ requests_done = 1
    /\ total_requests = 3
    /\ local_error = None

\* what a Going-away event does besides the close: nothing
GoAwayKeepsPipeline ==
    [][lastEvent'.kind = "GoAway" =>
          /\ lastClose'.app
          /\ lastClose'.reason = "goaway"
          /\ local_error' = (IF local_error = None
                             THEN Some(lastClose') ELSE local_error)
          /\ pc' = "events"
          /\ UNCHANGED pipeline]_vars

\* C17 (as stated): a Going-away event requests a graceful close whose reason
\* code is not the code of the all-requests-done close, and changes neither
\* the InflightRequest, nor the counters, nor the results.
C17_GoAwayDistinctCode ==
    /\ GoAwayKeepsPipeline
    /\ [][lastEvent'.kind = "GoAway" => lastClose'.err # DoneClose.err]_vars

\* C17 (amended): a Going-away event requests a graceful close with the
\* error code of the all-requests-done close and a reason phrase of its own
\* ("goaway", not "done"); the connection records it unless a close was
\* requested before; the InflightRequest, the counters and the results are
\* left as they are.
C17_GoAwayDistinctReason ==
    /\ GoAwayKeepsPipeline
    /\ [][lastEvent'.kind = "GoAway" =>
             /\ lastClose'.err = DoneClose.err
             /\ lastClose'.reason # DoneClose.reason]_vars
    /\ [](lastClose.reason = "done" => requests_done >= total_requests)

\* a Going-away event was handled while the second request was in flight,
\* and the connection recorded its close
C17_Witness ==
    /\ lastEvent.kind = "GoAway"
    /\ local_error = Some(GoAwayClose)
    /\ IsSome(inflight)
    /\ requests_sent = 2
    /\ requests_done = 1
    /\ total_requests = 3

\* C18: once a close of the connection has been requested (completed-count
\* reached the total, or a Going-away event was handled), no request is
\* issued any more.
C18_NoIssueAfterClose ==
    [][IsSome(local_error) => requests_sent' = requests_sent]_vars

\* C19: in every state in which all of the (one or more) requests have been
\* issued and no InflightRequest exists, completed-count has reached the
\* total and a graceful close has been requested.
C19_NeverStuck ==
    (/\ total_requests > 0
     /\ requests_sent = total_requests
     /\ IsNone(inflight))
    => (/\ requests_done >= total_requests
        /\ IsSome(local_error)
        /\ Unwrap(local_error).app)

\* C20: the results hold at most `requests` rows, every index is below
\* `requests`, the indices grow strictly in append order, and no row is
\* appended once completed-count has reached the total.
C20_ResultsBounded ==
    /\ [](Len(results) <= requests)
    /\ [](\A i \in 1 .. Len(results) : results[i].index < requests)
    /\ [](\A i \in 1 .. Len(results) : \A j \in 1 .. Len(results) :
             i < j => results[i].index < results[j].index)
    /\ [][requests_done >= total_requests => results' = results]_vars

====
